---------------------------- MODULE Spec2Model ----------------------------
(***************************************************************************)
(* A model of the OfSM backend (backend.py): the per-model locks of        *)
(* DualModelManager, the content cleaning and bounded-retry generation     *)
(* functions, the ThreadPoolExecutor fan-out of ParallelCommentGenerator,   *)
(* the locked writes of Database and the Flask request handlers that       *)
(* drive them.                                                             *)
(*                                                                         *)
(* Text is a sequence of one-character strings.  Threads are the pool      *)
(* workers, the request threads of the threaded Flask server and the main  *)
(* thread, which runs cleanup() at exit.                                   *)
(***************************************************************************)
EXTENDS Integers, Sequences, FiniteSets, TLC

(***************************************************************************)
(* Program constants                                                       *)
(***************************************************************************)
MAX_POST_LEN == 750
MAX_COMMENT_LEN == 750
NUM_AI_POSTS == 2
MAX_WORKERS_PER_GPU == 1
\* len(model_manager.models): DualModelManager.__init__ always builds a
\* two-element devices list (or raises before the server exists).
NumModels == 2
\* variant: a loop of one attempt more
OneMoreAttempt == 2 + 1
\* for attempt in range(2)
MaxAttempts == 2

(***************************************************************************)
(* Text helpers                                                            *)
(***************************************************************************)
MinOf(S) == CHOOSE x \in S : \A y \in S : x <= y
MaxOf(S) == CHOOSE x \in S : \A y \in S : x >= y

LowerMap ==
  ("A" :> "a") @@ ("B" :> "b") @@ ("C" :> "c") @@ ("D" :> "d") @@ ("E" :> "e") @@
  ("F" :> "f") @@ ("G" :> "g") @@ ("H" :> "h") @@ ("I" :> "i") @@ ("J" :> "j") @@
  ("K" :> "k") @@ ("L" :> "l") @@ ("M" :> "m") @@ ("N" :> "n") @@ ("O" :> "o") @@
  ("P" :> "p") @@ ("Q" :> "q") @@ ("R" :> "r") @@ ("S" :> "s") @@ ("T" :> "t") @@
  ("U" :> "u") @@ ("V" :> "v") @@ ("W" :> "w") @@ ("X" :> "x") @@ ("Y" :> "y") @@
  ("Z" :> "z")

\* str.lower() / re.IGNORECASE on one character
Lower(c) == IF c \in DOMAIN LowerMap THEN LowerMap[c] ELSE c

\* \s and str.strip(): the whitespace characters of the model's alphabet
IsSpace(c) == c \in {" ", "\n", "\t"}

IsDigit(c) == c \in {"0", "1", "2", "3", "4", "5", "6", "7", "8", "9"}

\* s[:n]
Take(s, n) == SubSeq(s, 1, IF n < Len(s) THEN n ELSE Len(s))

\* the literal lit (given in lower case) stands at position j of s, ignoring case
LitAt(lit, s, j) ==
  /\ j >= 1
  /\ j + Len(lit) - 1 <= Len(s)
  /\ \A k \in 1..Len(lit) : Lower(s[j + k - 1]) = lit[k]

\* lit in s.lower()
Contains(lit, s) == \E j \in 1..(Len(s) - Len(lit) + 1) : LitAt(lit, s, j)

\* str.strip()
Strip(s) ==
  LET ns == { i \in 1..Len(s) : ~IsSpace(s[i]) }
  IN  IF ns = {} THEN << >> ELSE SubSeq(s, MinOf(ns), MaxOf(ns))

\* re.sub(r'\s+', ' ', s): every maximal whitespace run becomes one space
CollapseSpaces(s) ==
  LET idx  == [i \in 1..Len(s) |-> i]
      keep == SelectSeq(idx, LAMBDA i : ~IsSpace(s[i]) \/ i = 1 \/ ~IsSpace(s[i - 1]))
  IN  [k \in 1..Len(keep) |-> IF IsSpace(s[keep[k]]) THEN " " ELSE s[keep[k]]]

(***************************************************************************)
(* ARTIFACT_PATTERNS and the other regular expressions of clean_content.   *)
(* Each pattern is modelled by the length of its match at a position       *)
(* (0: no match there; no pattern matches the empty string).               *)
(***************************************************************************)
L_no_hashtags == <<"n", "o", " ", "h", "a", "s", "h", "t", "a", "g", "s">>
L_include == <<"i", "n", "c", "l", "u", "d", "e">>
L_use_ == <<"u", "s", "e", " ">>
L_at_least_ == <<"a", "t", " ", "l", "e", "a", "s", "t", " ">>
L_emoji == <<"e", "m", "o", "j", "i">>
L_use_internet_slang == <<"u", "s", "e", " ", "i", "n", "t", "e", "r", "n", "e", "t", " ", "s", "l", "a", "n", "g">>
L_use_sarcasm == <<"u", "s", "e", " ", "s", "a", "r", "c", "a", "s", "m">>
L_story_colon == <<"s", "t", "o", "r", "y", ":">>
L_the_story_must_be == <<"t", "h", "e", " ", "s", "t", "o", "r", "y", " ", "m", "u", "s", "t", " ", "b", "e">>
L_no_passive_voice == <<"n", "o", " ", "p", "a", "s", "s", "i", "v", "e", " ", "v", "o", "i", "c", "e">>
L_keep_it_under == <<"k", "e", "e", "p", " ", "i", "t", " ", "u", "n", "d", "e", "r">>
L_write_a_short_comment == <<"w", "r", "i", "t", "e", " ", "a", " ", "s", "h", "o", "r", "t", " ", "c", "o", "m", "m", "e", "n", "t">>
L_as_ == <<"a", "s", " ">>
L_be_ == <<"b", "e", " ">>
L_instructions == <<"i", "n", "s", "t", "r", "u", "c", "t", "i", "o", "n", "s">>
L_use_at_least == <<"u", "s", "e", " ", "a", "t", " ", "l", "e", "a", "s", "t">>
L_write_a == <<"w", "r", "i", "t", "e", " ", "a">>
L_post_colon == <<"p", "o", "s", "t", ":">>
L_write_a_comment == <<"w", "r", "i", "t", "e", " ", "a", " ", "c", "o", "m", "m", "e", "n", "t">>
L_use == <<"u", "s", "e">>

\* a literal pattern, re.IGNORECASE
MatchLit(lit, s, j) == IF LitAt(lit, s, j) THEN Len(lit) ELSE 0

\* r"No hashtags\.*": the literal, then every "." that follows
MatchNoHashtags(s, j) ==
  IF ~LitAt(L_no_hashtags, s, j) THEN 0
  ELSE LET a    == j + Len(L_no_hashtags)
           stop == { k \in a..(Len(s) + 1) : k = Len(s) + 1 \/ s[k] # "." }
       IN  MinOf(stop) - j

\* r"Include.*?:": the literal, then the fewest characters of the line up to ":"
MatchInclude(s, j) ==
  IF ~LitAt(L_include, s, j) THEN 0
  ELSE LET a     == j + Len(L_include)
           colon == { k \in a..Len(s) : s[k] = ":" }
       IN  IF colon = {} THEN 0
           ELSE LET k0 == MinOf(colon)
                IN  IF \A q \in a..(k0 - 1) : s[q] # "\n" THEN k0 - j + 1 ELSE 0

\* "emojis?" at position a: its length, or 0
MatchEmojis(s, a) ==
  IF ~LitAt(L_emoji, s, a) THEN 0
  ELSE IF a + 5 <= Len(s) /\ Lower(s[a + 5]) = "s" THEN 6 ELSE 5

\* r"Use (at least \d+ )?emojis?": the optional group is tried first
MatchUseEmojis(s, j) ==
  IF ~LitAt(L_use_, s, j) THEN 0
  ELSE LET a    == j + Len(L_use_)
           d0   == a + Len(L_at_least_)
           stop == { k \in d0..(Len(s) + 1) : k = Len(s) + 1 \/ ~IsDigit(s[k]) }
           de   == MinOf(stop)
           grp  == IF LitAt(L_at_least_, s, a) /\ de > d0 /\ de <= Len(s) /\ s[de] = " "
                   THEN de + 1 - a ELSE 0
           withGrp == IF grp > 0 THEN MatchEmojis(s, a + grp) ELSE 0
       IN  IF withGrp > 0 THEN Len(L_use_) + grp + withGrp
           ELSE IF MatchEmojis(s, a) > 0 THEN Len(L_use_) + MatchEmojis(s, a)
           ELSE 0

\* lit, then r".{0,30}\.": as many characters of the line as possible, at
\* most 30, then a "."
MatchUpToDot(lit, s, j) ==
  IF ~LitAt(lit, s, j) THEN 0
  ELSE LET a  == j + Len(lit)
           ks == { k \in 0..30 : /\ a + k <= Len(s)
                                 /\ s[a + k] = "."
                                 /\ \A q \in 0..(k - 1) : s[a + q] # "\n" }
       IN  IF ks = {} THEN 0 ELSE Len(lit) + MaxOf(ks) + 1

\* r"\[[^\]]+\]"
MatchBracket(s, j) ==
  IF s[j] # "[" THEN 0
  ELSE LET close == { k \in (j + 1)..Len(s) : s[k] = "]" }
       IN  IF close = {} \/ MinOf(close) = j + 1 THEN 0 ELSE MinOf(close) - j + 1

\* r"\([^\)]*instructions[^\)]*\)", re.IGNORECASE
MatchParenInstructions(s, j) ==
  IF s[j] # "(" THEN 0
  ELSE LET close == { k \in (j + 1)..Len(s) : s[k] = ")" }
       IN  IF close = {} THEN 0
           ELSE LET k0 == MinOf(close)
                IN  IF \E q \in (j + 1)..(k0 - Len(L_instructions)) :
                          LitAt(L_instructions, s, q)
                    THEN k0 - j + 1 ELSE 0

\* ARTIFACT_PATTERNS[p - 1] for p in 1..12, then the two bracket patterns
NumArtifactPatterns == 12
PatBracket == 13
PatParen == 14

MatchLen(p, s, j) ==
  CASE p = 1  -> MatchNoHashtags(s, j)
    [] p = 2  -> MatchInclude(s, j)
    [] p = 3  -> MatchUseEmojis(s, j)
    [] p = 4  -> MatchLit(L_use_internet_slang, s, j)
    [] p = 5  -> MatchLit(L_use_sarcasm, s, j)
    [] p = 6  -> MatchLit(L_story_colon, s, j)
    [] p = 7  -> MatchLit(L_the_story_must_be, s, j)
    [] p = 8  -> MatchLit(L_no_passive_voice, s, j)
    [] p = 9  -> MatchLit(L_keep_it_under, s, j)
    [] p = 10 -> MatchLit(L_write_a_short_comment, s, j)
    [] p = 11 -> MatchUpToDot(L_as_, s, j)
    [] p = 12 -> MatchUpToDot(L_be_, s, j)
    [] p = 13 -> MatchBracket(s, j)
    [] p = 14 -> MatchParenInstructions(s, j)

\* F applied to the value of x: x is evaluated once, before F is applied
OnValue(F(_), x) == CHOOSE r \in { F(v) : v \in {x} } : TRUE

\* re.sub(pattern, "", s): the leftmost matches, left to right, are removed
RECURSIVE ReSubFrom(_, _, _)
ReSubFrom(p, s, i) ==
  LET m == { j \in i..Len(s) : MatchLen(p, s, j) > 0 }
  IN  IF m = {} THEN SubSeq(s, i, Len(s))
      ELSE OnValue(LAMBDA j :
                     SubSeq(s, i, j - 1)
                       \o OnValue(LAMBDA n : ReSubFrom(p, s, n), j + MatchLen(p, s, j)),
                   MinOf(m))

ReSub(p, s) == ReSubFrom(p, s, 1)

\* for pattern in ARTIFACT_PATTERNS: text = re.sub(pattern, "", text)
RECURSIVE RemoveArtifacts(_, _)
RemoveArtifacts(s, p) ==
  IF p > NumArtifactPatterns THEN s
  ELSE OnValue(LAMBDA t : RemoveArtifacts(t, p + 1), ReSub(p, s))

\* lines 164-165: the bracketed and the parenthesised instructions
WithoutBrackets(s) == OnValue(LAMBDA b : ReSub(PatParen, b), ReSub(PatBracket, s))

\* variant: whitespace left as it is
NotNormalized(s) == s
\* line 168: re.sub(r'\s+', ' ', text).strip()
Normalized(s) == OnValue(Strip, CollapseSpaces(s))

\* re.split(r'[.!?]+', text)[0]
FirstSentence(s) ==
  LET ends == { k \in 1..Len(s) : s[k] \in {".", "!", "?"} }
  IN  IF ends = {} THEN s ELSE SubSeq(s, 1, MinOf(ends) - 1)

\* variant: a space before the period
FirstSentenceSpaced(s) ==
  IF Len(FirstSentence(s)) > 20 THEN FirstSentence(s) \o <<" ", ".">> ELSE s
\* lines 171-173
FirstSentenceOnly(s) ==
  IF Len(FirstSentence(s)) > 20 THEN FirstSentence(s) \o <<".">> ELSE s

\* any(word in text.lower() for word in ['include', 'use at least', 'write a', 'post:'])
HasInstructionWord(s) ==
  \/ Contains(L_include, s)
  \/ Contains(L_use_at_least, s)
  \/ Contains(L_write_a, s)
  \/ Contains(L_post_colon, s)

\* [l.strip() for l in original.split('\n') if l.strip() and len(l) > 20]:
\* the start positions of the qualifying lines
LineEnd(s, a) ==
  LET nl == { k \in a..Len(s) : s[k] = "\n" }
  IN  IF nl = {} THEN Len(s) ELSE MinOf(nl) - 1

LongLineStarts(s) ==
  { a \in 1..Len(s) :
      /\ a = 1 \/ s[a - 1] = "\n"
      /\ LineEnd(s, a) - a + 1 > 20
      /\ \E k \in a..LineEnd(s, a) : ~IsSpace(s[k]) }

\* lines[0]
FirstLongLine(original) ==
  OnValue(LAMBDA a : OnValue(Strip, SubSeq(original, a, LineEnd(original, a))),
          MinOf(LongLineStarts(original)))

\* lines 176-179
InstructionFallback(original, t) ==
  IF HasInstructionWord(t) /\ LongLineStarts(original) # {}
  THEN FirstLongLine(original) ELSE t

\* the text before lines 176-179, and whether they replace it by a line of
\* the original text
SentenceText(original) ==
  OnValue(FirstSentenceOnly,
    OnValue(Normalized,
      OnValue(WithoutBrackets, RemoveArtifacts(original, 1))))
LineTaken(original) ==
  HasInstructionWord(SentenceText(original)) /\ LongLineStarts(original) # {}

CleanValue(original) ==
  OnValue(Strip,
    OnValue(LAMBDA t : InstructionFallback(original, t),
      OnValue(FirstSentenceOnly,
        OnValue(Normalized,
          OnValue(WithoutBrackets, RemoveArtifacts(original, 1))))))

clean_content(text) == OnValue(CleanValue, text)

(***************************************************************************)
(* generate_post_content / generate_comment_content: acceptance test and   *)
(* the value returned when both attempts were rejected.                    *)
(***************************************************************************)
POST_MIN_LEN == 30
COMMENT_MIN_LEN == 15

L_thinking_about == <<"I", "'", "v", "e", " ", "b", "e", "e", "n", " ", "t", "h", "i", "n", "k", "i", "n", "g", " ", "a", "b", "o", "u", "t", " ">>
L_lately == <<" ", "l", "a", "t", "e", "l", "y", ".", ".", ".">>
L_interesting_post == <<"I", "n", "t", "e", "r", "e", "s", "t", "i", "n", "g", " ", "p", "o", "s", "t", "!">>

\* variant: len(cleaned) >= 30
AcceptablePostFrom30(cleaned) ==
  /\ cleaned # << >>
  /\ Len(cleaned) >= POST_MIN_LEN
  /\ ~ \/ Contains(L_no_hashtags, cleaned)
       \/ Contains(L_include, cleaned)
       \/ Contains(L_use_at_least, cleaned)
       \/ Contains(L_write_a_comment, cleaned)
       \/ Contains(L_post_colon, cleaned)
\* line 204: cleaned and len(cleaned) > 30 and not any(artifact in cleaned.lower() ...)
AcceptablePost(cleaned) ==
  /\ cleaned # << >>
  /\ Len(cleaned) > POST_MIN_LEN
  /\ ~ \/ Contains(L_no_hashtags, cleaned)
       \/ Contains(L_include, cleaned)
       \/ Contains(L_use_at_least, cleaned)
       \/ Contains(L_write_a_comment, cleaned)
       \/ Contains(L_post_colon, cleaned)

\* line 232
AcceptableComment(cleaned) ==
  /\ cleaned # << >>
  /\ Len(cleaned) > COMMENT_MIN_LEN
  /\ ~ \/ Contains(L_include, cleaned)
       \/ Contains(L_use, cleaned)
       \/ Contains(L_write_a_comment, cleaned)

Acceptable(kind, cleaned) ==
  IF kind = "post" THEN AcceptablePost(cleaned) ELSE AcceptableComment(cleaned)

MaxLen(kind) == IF kind = "post" THEN MAX_POST_LEN ELSE MAX_COMMENT_LEN

\* the fixed fallback strings of lines 209 and 237
Fallback(kind, topic) ==
  IF kind = "post" THEN L_thinking_about \o topic \o L_lately ELSE L_interesting_post

\* return cleaned[:MAX_LEN] (lines 205, 233)
AcceptedResult(kind, cleaned) == Take(cleaned, MaxLen(kind))

\* return cleaned[:MAX_LEN] if cleaned else <fallback> (lines 209, 237)
\* variants of line 209 / 237: without the fallback string, without the cut
ExhaustedNoFallback(kind, cleaned, topic) == Take(cleaned, MaxLen(kind))
ExhaustedUncut(kind, cleaned, topic) ==
  IF cleaned # << >> THEN cleaned ELSE Fallback(kind, topic)
ExhaustedResult(kind, cleaned, topic) ==
  IF cleaned # << >> THEN Take(cleaned, MaxLen(kind)) ELSE Fallback(kind, topic)

(***************************************************************************)
(* Bounds and inputs                                                       *)
(***************************************************************************)
\* request threads of the threaded Flask server, one request each
NumReq == 2
\* the persona list never grows beyond this length
MaxPersonas == 4
\* the longest persona list Spec starts with
MaxPoolPersonas == 3
\* the longest persona list SpecSearch starts with
MaxSearchPersonas == 2

\* texts the model may decode (the return value of DualModelManager.generate)
RawGood == <<"N", "i", "c", "e", " ", "p", "o", "s", "t", ",", " ", "t", "h", "a", "n", "k", "s", " ", "f", "o", "r", " ", "s", "h", "a", "r", "i", "n", "g", " ", "t", "h", "i", "s", "!">>
RawEmpty == <<"N", "o", " ", "h", "a", "s", "h", "t", "a", "g", "s", ".">>
RawShort == <<"o", "k">>
L_because == <<"b", "e", "c", "a", "u", "s", "e">>
\* longer than MAX_COMMENT_LEN, without a sentence end
RawLong == [i \in 1..(MAX_COMMENT_LEN + 17) |-> IF i <= Len(L_because) THEN L_because[i] ELSE "a"]

\* texts at the limits of the acceptance tests: clean_content leaves them at
\* 15, 16, 30 and 31 characters; the last one keeps the word "include"
Raw15 == <<"G", "r", "e", "a", "t", " ", "p", "o", "s", "t", ",", " ", "y", "e", "s">>
Raw16 == <<"G", "r", "e", "a", "t", " ", "p", "o", "s", "t", ",", " ", "y", "e", "s", "!">>
Raw30 == <<"I", " ", "w", "a", "l", "k", "e", "d", " ", "m", "y", " ", "d", "o", "g", " ", "i", "n", " ", "t", "h", "e", " ", "p", "a", "r", "k", " ", "t", ".">>
Raw31 == <<"I", " ", "w", "a", "l", "k", "e", "d", " ", "m", "y", " ", "d", "o", "g", " ", "i", "n", " ", "t", "h", "e", " ", "p", "a", "r", "k", " ", "t", "o", ".">>
RawMarker == <<"P", "l", "e", "a", "s", "e", " ", "i", "n", "c", "l", "u", "d", "e", " ", "m", "o", "r", "e", " ", "p", "h", "o", "t", "o", "s", " ", "o", "f", " ", "t", "h", "e", " ", "m", "o", "u", "n", "t", "a", "i", "n", "s", " ", "n", "e", "x", "t", " ", "t", "i", "m", "e">>
EdgeRaws == {Raw15, Raw16, Raw30, Raw31, RawMarker}

\* texts for the sanitizer: the example of the specification, one in which
\* a removal puts a new artifact together, one with an instruction word in
\* its second line
RawExample == <<"S", "u", "r", "e", "!", " ", "N", "o", " ", "h", "a", "s", "h", "t", "a", "g", "s", ".", " ", "I", " ", "l", "o", "v", "e", " ", "h", "i", "k", "i", "n", "g", " ", "i", "n", " ", "t", "h", "e", " ", "m", "o", "u", "n", "t", "a", "i", "n", "s", " ", "e", "v", "e", "r", "y", " ", "w", "e", "e", "k", "e", "n", "d", ".">>
RawNested == <<"N", "o", " ", "h", "a", "s", "h", "N", "o", " ", "h", "a", "s", "h", "t", "a", "g", "s", ".", "t", "a", "g", "s", ".", " ", "W", "h", "a", "t", " ", "a", " ", "l", "o", "v", "e", "l", "y", " ", "d", "a", "y">>
RawLines == <<"T", "h", "i", "s", " ", "i", "s", " ", "a", " ", "l", "o", "n", "g", " ", "l", "i", "n", "e", " ", "w", "i", "t", "h", " ", " ", "d", "o", "u", "b", "l", "e", " ", "s", "p", "a", "c", "e", "s", "\n", "i", "n", "c", "l", "u", "d", "e", " ", "m", "e">>
SanitizerRaws == {RawExample, RawNested, RawLines, RawGood}

ShortRaws == {RawGood, RawShort}
AllRaws == {RawGood, RawEmpty, RawShort, RawLong}

\* clean_content on the texts above, computed once
CleanTable == [r \in AllRaws \cup EdgeRaws \cup SanitizerRaws |-> clean_content(r)]
Cleaned(raw) == CleanTable[raw]
\* clean_content on the texts it has returned, computed once
CleanTwiceTable == [r \in SanitizerRaws |-> clean_content(Cleaned(r))]
CleanedTwice(raw) == CleanTwiceTable[raw]

\* request bodies and queries, already stripped by the handlers
UserTexts == {<<"h", "i">>}
\* a request body longer than MAX_POST_LEN and MAX_COMMENT_LEN
UserLong == [i \in 1..(MAX_POST_LEN + 1) |-> "x"]
StoreTexts == UserTexts \cup {UserLong}
\* a query of MAX_POST_LEN characters
LongQuery == [i \in 1..MAX_POST_LEN |-> "q"]
Queries == {<<"c", "a", "t", "s">>}

\* PersonaManager.default_personas
DefaultPersonas ==
  << [name |-> "Alex Tech",
      style |-> "Technical expert, precise, uses jargon naturally"],
     [name |-> "Sam Casual",
      style |-> "Friendly, uses emojis naturally, conversational"],
     [name |-> "Dr. Morgan",
      style |-> "Academic tone, analytical, cites studies naturally"],
     [name |-> "Charlie",
      style |-> "Sarcastic internet troll, uses slang, contrarian"] >>
\* a persona posted to /admin/personas
NewPersonas == {[name |-> "Eve", style |-> "new"]}

(***************************************************************************)
(* Threads                                                                 *)
(***************************************************************************)
\* variant: a pool with one worker more
BiggerPool == NumModels * MAX_WORKERS_PER_GPU + 1
\* max_workers = num_gpus * MAX_WORKERS_PER_GPU
PoolSize == NumModels * MAX_WORKERS_PER_GPU
Workers == { <<"worker", i>> : i \in 1..PoolSize }
Requests == { <<"request", i>> : i \in 1..NumReq }
Main == <<"main", 1>>
Threads == Workers \cup Requests \cup {Main}
\* the value of an unheld lock
Free == <<"free", 1>>
Models == 0..(NumModels - 1)

VARIABLES
  personas,   \* PersonaManager.personas, the live list
  locks,      \* DualModelManager.locks: the holder of each model's lock
  dbLock,     \* Database.lock: its holder
  posts,      \* rows of table posts; the row id is the index
  comments,   \* rows of table comments
  queue,      \* work queue of the ThreadPoolExecutor: indexes into tasks
  tasks,      \* every work item submitted, with its life-cycle state
  shut,       \* the executor has been shut down
  pc,         \* where each thread is
  fr,         \* each thread's local variables
  resp,       \* HTTP status returned by each request thread (0: none yet)
  calls,      \* history: the calls of submit_post_comments
  pending     \* history: the unfinished tasks when shutdown was called

vars == <<personas, locks, dbLock, posts, comments, queue, tasks, shut, pc, fr,
          resp, calls, pending>>

Terminal == {"Completed", "Failed"}

NoFrame ==
  [op |-> "none", task |-> 0, model_id |-> 0, attempt |-> 0, raws |-> << >>,
   topic |-> << >>, text |-> << >>, author |-> "", post_id |-> 0, sidx |-> 0,
   i |-> 0, call |-> 0, err |-> "none", stored |-> 0]

\* which generate_*_content a thread runs
Kind(t) == IF fr[t].op = "search" THEN "post" ELSE "comment"

\* the thread is inside the `with lock:` block of generate on model r
InGenerate(t, r) == pc[t] = "gen_call" /\ fr[t].model_id = r

InitWith(ps) ==
  /\ personas = ps
  /\ locks = [r \in Models |-> Free]
  /\ dbLock = Free
  /\ posts = << >>
  /\ comments = << >>
  /\ queue = << >>
  /\ tasks = << >>
  /\ shut = FALSE
  /\ pc = [t \in Threads |-> IF t = Main THEN "serving" ELSE "idle"]
  /\ fr = [t \in Threads |-> NoFrame]
  /\ resp = [t \in Requests |-> 0]
  /\ calls = << >>
  /\ pending = {}

\* personas.json may hold any list; without the file it is the default list
InitCounts == { n \in 0..Len(DefaultPersonas) : n <= MaxPersonas }
Init == \E n \in InitCounts : InitWith(SubSeq(DefaultPersonas, 1, n))

(***************************************************************************)
(* DualModelManager.generate (lines 128-150)                               *)
(***************************************************************************)
\* variant: generate without the `with lock:` of line 134
NoLock(r) == TRUE
\* `with lock:` can be entered
LockFree(r) == locks[r] = Free

\* variant: the lock is taken for the whole generate_*_content call and is
\* still held when generate returns
KeptOnReturn(r) == locks
\* leaving the `with lock:` block by return
ReleaseOnReturn(r) == [locks EXCEPT ![r] = Free]
\* variant: acquire()/release() without try/finally, the lock stays held
KeptOnRaise(r) == locks
\* leaving the `with lock:` block by an exception
ReleaseOnRaise(r) == [locks EXCEPT ![r] = Free]

\* a generate_*_content call starts: attempt 0 on model m
StartGenerate(f, m) == [f EXCEPT !.model_id = m, !.attempt = 0, !.raws = << >>]

\* the thread acquires the lock of its model and enters the generation call
GenAcquire(t) ==
  /\ pc[t] = "gen_wait"
  /\ LockFree(fr[t].model_id)
  /\ locks' = [locks EXCEPT ![fr[t].model_id] = t]
  /\ pc' = [pc EXCEPT ![t] = "gen_call"]
  /\ tasks' = IF fr[t].op = "task"
              THEN [tasks EXCEPT ![fr[t].task].entered = TRUE] ELSE tasks
  /\ UNCHANGED <<personas, dbLock, posts, comments, queue, shut, fr, resp, calls,
                 pending>>

\* variant: _generate_single_comment without its try/except; the exception
\* ends the work item unrecorded and takes the worker with it
RaisedUncaught(t, what) ==
  IF t \in Workers
  THEN /\ fr' = [fr EXCEPT ![t] = NoFrame]
       /\ pc' = [pc EXCEPT ![t] = "exited"]
       /\ UNCHANGED <<tasks, resp>>
  ELSE /\ fr' = [fr EXCEPT ![t].err = what]
       /\ pc' = [pc EXCEPT ![t] = "done"]
       /\ resp' = [resp EXCEPT ![t] = 500]
       /\ UNCHANGED tasks

\* an exception leaves the code a thread runs: a task catches it at line 287,
\* search_generate at line 450, and Flask answers 500 for create_post and
\* add_comment
Raised(t, what) ==
  IF t \in Workers
  THEN /\ tasks' = [tasks EXCEPT ![fr[t].task].state = "Failed",
                                 ![fr[t].task].err = what]
       /\ fr' = [fr EXCEPT ![t] = NoFrame]
       /\ pc' = [pc EXCEPT ![t] = "idle"]
       /\ UNCHANGED resp
  ELSE /\ fr' = [fr EXCEPT ![t].err = what]
       /\ pc' = [pc EXCEPT ![t] = "done"]
       /\ resp' = [resp EXCEPT ![t] = 500]
       /\ UNCHANGED tasks

\* model.generate returns raw; lines 202-209 / 230-237 follow
GenReturn(t, raw) ==
  LET f       == fr[t]
      cleaned == Cleaned(raw)
      g       == [f EXCEPT !.raws = Append(f.raws, raw)]
  IN  /\ pc[t] = "gen_call"
      /\ locks' = ReleaseOnReturn(f.model_id)
      /\ IF Acceptable(Kind(t), cleaned)
         THEN /\ fr' = [fr EXCEPT ![t] = [g EXCEPT !.text = AcceptedResult(Kind(t), cleaned)]]
              /\ pc' = [pc EXCEPT ![t] = "db_wait"]
         ELSE IF f.attempt + 1 < MaxAttempts
         THEN /\ fr' = [fr EXCEPT ![t] = [g EXCEPT !.attempt = f.attempt + 1]]
              /\ pc' = [pc EXCEPT ![t] = "gen_wait"]
         ELSE /\ fr' = [fr EXCEPT ![t] =
                          [g EXCEPT !.text = ExhaustedResult(Kind(t), cleaned, f.topic)]]
              /\ pc' = [pc EXCEPT ![t] = "db_wait"]
      /\ UNCHANGED <<personas, dbLock, posts, comments, queue, tasks, shut, resp,
                     calls, pending>>

\* the tokenizer or model.generate raises inside the `with lock:` block
GenRaise(t) ==
  /\ pc[t] = "gen_call"
  /\ locks' = ReleaseOnRaise(fr[t].model_id)
  /\ Raised(t, "generation")
  /\ UNCHANGED <<personas, dbLock, posts, comments, queue, shut, calls,
                 pending>>

(***************************************************************************)
(* Database.add_post / Database.add_comment (lines 332-351)                *)
(***************************************************************************)
\* variant: add_post and add_comment without `with self.lock:`
NoDbLock == TRUE
\* `with self.lock:` of lines 334 and 345 can be entered
DbLockFree == dbLock = Free

\* `with self.lock:` is entered
DbAcquire(t) ==
  /\ pc[t] = "db_wait"
  /\ DbLockFree
  /\ dbLock' = t
  /\ pc' = [pc EXCEPT ![t] = "db_write"]
  /\ UNCHANGED <<personas, locks, posts, comments, queue, tasks, shut, fr, resp,
                 calls, pending>>

\* INSERT INTO posts ... (content[:MAX_POST_LEN], author, is_ai)
PostRow(content, author, is_ai) ==
  [content |-> Take(content, MAX_POST_LEN), author |-> author, is_ai |-> is_ai]

\* variants: the row without the cut, the row without the author
CommentRowUncut(post_id, content, author) ==
  [post_id |-> post_id, content |-> content, author |-> author]
CommentRowUnsigned(post_id, content, author) ==
  [post_id |-> post_id, content |-> Take(content, MAX_COMMENT_LEN), author |-> ""]
\* INSERT INTO comments ... (post_id, content[:MAX_COMMENT_LEN], author)
CommentRow(post_id, content, author) ==
  [post_id |-> post_id, content |-> Take(content, MAX_COMMENT_LEN), author |-> author]

\* submit_post_comments(post_id, content) is entered: line 263 binds
\* active_personas to the list object of the PersonaManager
CallRecord(t, post_id) ==
  [thread |-> t, post_id |-> post_id, start |-> personas, mutated |-> FALSE,
   status |-> "running", first |-> Len(tasks) + 1]

\* a task commits its comment and completes (lines 285-286)
CommitComment(t) ==
  /\ pc[t] = "db_write"
  /\ fr[t].op = "task"
  /\ dbLock' = Free
  /\ comments' = Append(comments, CommentRow(fr[t].post_id, fr[t].text, fr[t].author))
  /\ tasks' = [tasks EXCEPT ![fr[t].task].state = "Completed"]
  /\ fr' = [fr EXCEPT ![t] = NoFrame]
  /\ pc' = [pc EXCEPT ![t] = "idle"]
  /\ UNCHANGED <<personas, locks, posts, queue, shut, resp, calls, pending>>

\* the handler add_comment commits a user's comment and answers (lines 430-431)
CommitUserComment(t) ==
  /\ pc[t] = "db_write"
  /\ fr[t].op = "add_comment"
  /\ dbLock' = Free
  /\ comments' = Append(comments, CommentRow(fr[t].post_id, fr[t].text, fr[t].author))
  /\ pc' = [pc EXCEPT ![t] = "done"]
  /\ resp' = [resp EXCEPT ![t] = 200]
  /\ UNCHANGED <<personas, locks, posts, queue, tasks, shut, fr, calls,
                 pending>>

\* create_post or search_generate commits its post, gets the row id and
\* enters submit_post_comments (lines 411-414, 443-447)
CommitPost(t) ==
  /\ pc[t] = "db_write"
  /\ fr[t].op \in {"create_post", "search"}
  /\ dbLock' = Free
  /\ posts' = Append(posts, PostRow(fr[t].text, fr[t].author, fr[t].op = "search"))
  /\ calls' = Append(calls, CallRecord(t, Len(posts) + 1))
  /\ fr' = [fr EXCEPT ![t].post_id = Len(posts) + 1,
                      ![t].stored = fr[t].stored + 1,
                      ![t].i = 0,
                      ![t].call = Len(calls) + 1]
  /\ pc' = [pc EXCEPT ![t] = "submit"]
  /\ UNCHANGED <<personas, locks, comments, queue, tasks, shut, resp,
                 pending>>

\* sqlite3 raises inside the `with self.lock:` block
DbRaise(t) ==
  /\ pc[t] = "db_write"
  /\ dbLock' = Free
  /\ Raised(t, "storage")
  /\ UNCHANGED <<personas, locks, posts, comments, queue, shut, calls,
                 pending>>

(***************************************************************************)
(* ParallelCommentGenerator.submit_post_comments (lines 261-279)           *)
(***************************************************************************)
\* variant: every task on the first model
FirstDevice(i) == 0
\* device_id = i % len(self.model_manager.models)
DeviceFor(i) == i % NumModels

\* the work item of executor.submit(self._generate_single_comment, ...)
TaskRecord(f, persona) ==
  [post_id |-> f.post_id, post_content |-> f.text, persona |-> persona,
   device_id |-> DeviceFor(f.i), state |-> "Scheduled", entered |-> FALSE,
   err |-> "none",
   call |-> f.call, ordinal |-> f.i]

\* one iteration of `for i, persona in enumerate(active_personas)`: the list
\* iterator reads the live list
SubmitStep(t) ==
  /\ pc[t] = "submit"
  /\ fr[t].i < Len(personas)
  /\ ~shut
  /\ tasks' = Append(tasks, TaskRecord(fr[t], personas[fr[t].i + 1]))
  /\ queue' = Append(queue, Len(tasks) + 1)
  /\ fr' = [fr EXCEPT ![t].i = fr[t].i + 1]
  /\ UNCHANGED <<personas, locks, dbLock, posts, comments, shut, pc, resp, calls,
                 pending>>

\* executor.submit raises RuntimeError after shutdown
SubmitRaise(t) ==
  /\ pc[t] = "submit"
  /\ fr[t].i < Len(personas)
  /\ shut
  /\ calls' = [calls EXCEPT ![fr[t].call].status = "raised"]
  /\ fr' = [fr EXCEPT ![t].err = "submit"]
  /\ pc' = [pc EXCEPT ![t] = "done"]
  /\ resp' = [resp EXCEPT ![t] = 500]
  /\ UNCHANGED <<personas, locks, dbLock, posts, comments, queue, tasks, shut,
                 pending>>

\* f"AI Bot {i+1}"
BotName(i) == <<"AI Bot 1", "AI Bot 2">>[i + 1]

\* variant: submit_post_comments collects future.result() of its tasks
\* before it returns
AwaitedFutures(t) ==
  /\ fr[t].i >= Len(personas)
  /\ \A k \in DOMAIN tasks : tasks[k].call = fr[t].call => tasks[k].state \in Terminal
\* the for loop ends when the list iterator is exhausted; the futures are
\* collected in a list and never waited for (lines 264, 277-279)
IteratorExhausted(t) == fr[t].i >= Len(personas)

\* the iterator is exhausted and submit_post_comments returns; create_post
\* answers, search_generate goes on with its next post or answers
SubmitReturn(t) ==
  /\ pc[t] = "submit"
  /\ IteratorExhausted(t)
  /\ calls' = [calls EXCEPT ![fr[t].call].status = "returned"]
  /\ IF fr[t].op = "search" /\ fr[t].sidx + 1 < NUM_AI_POSTS
     THEN /\ fr' = [fr EXCEPT ![t] =
                      [StartGenerate(fr[t], (fr[t].sidx + 1) % NumModels)
                         EXCEPT !.sidx = fr[t].sidx + 1,
                                !.author = BotName(fr[t].sidx + 1)]]
          /\ pc' = [pc EXCEPT ![t] = "gen_wait"]
          /\ UNCHANGED resp
     ELSE /\ pc' = [pc EXCEPT ![t] = "done"]
          /\ resp' = [resp EXCEPT ![t] = 200]
          /\ UNCHANGED fr
  /\ UNCHANGED <<personas, locks, dbLock, posts, comments, queue, tasks, shut,
                 pending>>

(***************************************************************************)
(* Flask request handlers (lines 403-498)                                  *)
(***************************************************************************)
\* POST /api/posts with non-empty content: add_post comes first
CreatePost(t, content) ==
  /\ pc[t] = "idle"
  /\ t \in Requests
  /\ fr' = [fr EXCEPT ![t] = [NoFrame EXCEPT !.op = "create_post", !.text = content,
                                             !.author = "Anonymous"]]
  /\ pc' = [pc EXCEPT ![t] = "db_wait"]
  /\ UNCHANGED <<personas, locks, dbLock, posts, comments, queue, tasks, shut, resp,
                 calls, pending>>

\* POST /api/posts/<post_id>/comments with non-empty content
AddComment(t, post_id, content) ==
  /\ pc[t] = "idle"
  /\ t \in Requests
  /\ fr' = [fr EXCEPT ![t] = [NoFrame EXCEPT !.op = "add_comment", !.text = content,
                                             !.post_id = post_id, !.author = "You"]]
  /\ pc' = [pc EXCEPT ![t] = "db_wait"]
  /\ UNCHANGED <<personas, locks, dbLock, posts, comments, queue, tasks, shut, resp,
                 calls, pending>>

\* GET /api/search?q=query with a non-empty query: the first
\* generate_post_content(query, 0 % len(models)) starts
SearchGenerate(t, query) ==
  /\ pc[t] = "idle"
  /\ t \in Requests
  /\ fr' = [fr EXCEPT ![t] = [StartGenerate(NoFrame, 0 % NumModels)
                                EXCEPT !.op = "search", !.topic = query,
                                       !.author = BotName(0)]]
  /\ pc' = [pc EXCEPT ![t] = "gen_wait"]
  /\ UNCHANGED <<personas, locks, dbLock, posts, comments, queue, tasks, shut, resp,
                 calls, pending>>

\* a request with empty content or an empty query is answered 400
EmptyRequest(t) ==
  /\ pc[t] = "idle"
  /\ t \in Requests
  /\ pc' = [pc EXCEPT ![t] = "done"]
  /\ resp' = [resp EXCEPT ![t] = 400]
  /\ UNCHANGED <<personas, locks, dbLock, posts, comments, queue, tasks, shut, fr,
                 calls, pending>>

\* history: the persona list changed while these calls were iterating over it
MarkMutated == [c \in DOMAIN calls |->
                  IF calls[c].status = "running"
                  THEN [calls[c] EXCEPT !.mutated = TRUE] ELSE calls[c]]

\* del self.personas[index]
RemoveAt(s, k) == SubSeq(s, 1, k - 1) \o SubSeq(s, k + 1, Len(s))

\* a persona handler answers
Answer(t, status) ==
  /\ pc' = [pc EXCEPT ![t] = "done"]
  /\ resp' = [resp EXCEPT ![t] = status]
  /\ UNCHANGED <<locks, dbLock, posts, comments, queue, tasks, shut, fr,
                 pending>>

\* POST /admin/personas: PersonaManager.add
AddPersona(t, p) ==
  /\ pc[t] = "idle"
  /\ t \in Requests
  /\ Len(personas) < MaxPersonas
  /\ personas' = Append(personas, p)
  /\ calls' = MarkMutated
  /\ Answer(t, 200)

\* PUT /admin/personas/<index>: PersonaManager.update ignores a bad index
UpdatePersona(t, index, p) ==
  /\ pc[t] = "idle"
  /\ t \in Requests
  /\ IF index < Len(personas)
     THEN /\ personas' = [personas EXCEPT ![index + 1] = p]
          /\ calls' = MarkMutated
     ELSE UNCHANGED <<personas, calls>>
  /\ Answer(t, 200)

\* DELETE /admin/personas/<index>: 404 for a bad index, else PersonaManager.delete
DeletePersona(t, index) ==
  /\ pc[t] = "idle"
  /\ t \in Requests
  /\ IF index >= Len(personas)
     THEN /\ UNCHANGED <<personas, calls>>
          /\ Answer(t, 404)
     ELSE /\ personas' = RemoveAt(personas, index + 1)
          /\ calls' = MarkMutated
          /\ Answer(t, 200)

(***************************************************************************)
(* Pool workers: ThreadPoolExecutor runs _generate_single_comment          *)
(* (lines 281-288) for each work item, in queue order                      *)
(***************************************************************************)
\* variant: the work item is read and stays in the queue
PeekedWorkItem(q) == [item |-> Head(q), rest |-> q]
\* variant: a last in, first out work queue
NewestWorkItem(q) == [item |-> q[Len(q)], rest |-> SubSeq(q, 1, Len(q) - 1)]
\* work_queue.get(): the queue of the executor is first in, first out
NextWorkItem(q) == [item |-> Head(q), rest |-> Tail(q)]

\* an idle worker takes the oldest work item and enters
\* generate_comment_content(post_content, persona, device_id)
Dequeue(w) ==
  /\ pc[w] = "idle"
  /\ w \in Workers
  /\ queue # << >>
  /\ LET k == NextWorkItem(queue).item
     IN  /\ tasks' = [tasks EXCEPT ![k].state = "Running"]
         /\ fr' = [fr EXCEPT ![w] =
                     [StartGenerate(NoFrame, tasks[k].device_id)
                        EXCEPT !.op = "task", !.task = k,
                               !.topic = tasks[k].post_content,
                               !.post_id = tasks[k].post_id,
                               !.author = tasks[k].persona.name]]
  /\ queue' = NextWorkItem(queue).rest
  /\ pc' = [pc EXCEPT ![w] = "gen_wait"]
  /\ UNCHANGED <<personas, locks, dbLock, posts, comments, shut, resp, calls,
                 pending>>

\* after shutdown a worker that finds the queue empty ends
WorkerExit(w) ==
  /\ pc[w] = "idle"
  /\ w \in Workers
  /\ queue = << >>
  /\ shut
  /\ pc' = [pc EXCEPT ![w] = "exited"]
  /\ UNCHANGED <<personas, locks, dbLock, posts, comments, queue, tasks, shut, fr,
                 resp, calls, pending>>

(***************************************************************************)
(* cleanup (lines 506-511) -> ParallelCommentGenerator.shutdown(wait=True) *)
(***************************************************************************)
\* executor.shutdown(wait=True) marks the executor shut down
Shutdown ==
  /\ pc[Main] = "serving"
  /\ shut' = TRUE
  /\ pending' = { k \in DOMAIN tasks : tasks[k].state \notin Terminal }
  /\ pc' = [pc EXCEPT ![Main] = "joining"]
  /\ UNCHANGED <<personas, locks, dbLock, posts, comments, queue, tasks, fr, resp,
                 calls>>

\* variant: shutdown(wait=False) joins nothing
NoJoin == TRUE
\* wait=True: shutdown joins every worker thread before it returns
JoinedWorkers == \A w \in Workers : pc[w] = "exited"

ShutdownReturn ==
  /\ pc[Main] = "joining"
  /\ JoinedWorkers
  /\ pc' = [pc EXCEPT ![Main] = "returned"]
  /\ UNCHANGED <<personas, locks, dbLock, posts, comments, queue, tasks, shut, fr,
                 resp, calls, pending>>

(***************************************************************************)
(* Specifications.  Each one is the program under a load: which requests   *)
(* arrive, on how many request threads, and what the model may decode.     *)
(***************************************************************************)
OneRequest == { <<"request", 1>> }

(***************************************************************************)
(* Spec: one POST /api/posts, its fan-out run by the pool, generation and  *)
(* storage failures, and cleanup() at any moment.                          *)
(***************************************************************************)
Next ==
  \/ \E t \in OneRequest, content \in UserTexts : CreatePost(t, content)
  \/ \E t \in OneRequest \cup Workers : DbAcquire(t)
  \/ \E t \in OneRequest : CommitPost(t)
  \/ \E t \in OneRequest : SubmitStep(t)
  \/ \E t \in OneRequest : SubmitRaise(t)
  \/ \E t \in OneRequest : SubmitReturn(t)
  \/ \E w \in Workers : Dequeue(w)
  \/ \E w \in Workers : GenAcquire(w)
  \/ \E w \in Workers, raw \in ShortRaws : GenReturn(w, raw)
  \/ \E w \in Workers : GenRaise(w)
  \/ \E w \in Workers : CommitComment(w)
  \/ \E t \in OneRequest \cup Workers : DbRaise(t)
  \/ \E w \in Workers : WorkerExit(w)
  \/ Shutdown
  \/ ShutdownReturn

PoolInit ==
  \E n \in { k \in InitCounts : k <= MaxPoolPersonas } :
    InitWith(SubSeq(DefaultPersonas, 1, n))

Spec == PoolInit /\ [][Next]_vars

(***************************************************************************)
(* SpecSearch: one GET /api/search; the request thread generates the two   *)
(* AI posts itself while the pool runs the comment tasks of the first.     *)
(***************************************************************************)
SearchInit ==
  \E n \in { k \in InitCounts : k <= MaxSearchPersonas } :
    InitWith(SubSeq(DefaultPersonas, 1, n))

SearchNext ==
  \/ \E t \in OneRequest, query \in Queries : SearchGenerate(t, query)
  \/ \E t \in OneRequest \cup Workers : GenAcquire(t)
  \/ \E t \in OneRequest \cup Workers, raw \in ShortRaws : GenReturn(t, raw)
  \/ \E t \in OneRequest \cup Workers : GenRaise(t)
  \/ \E t \in OneRequest \cup Workers : DbAcquire(t)
  \/ \E t \in OneRequest : CommitPost(t)
  \/ \E t \in OneRequest : SubmitStep(t)
  \/ \E t \in OneRequest : SubmitReturn(t)
  \/ \E w \in Workers : Dequeue(w)
  \/ \E w \in Workers : CommitComment(w)

SpecSearch == SearchInit /\ [][SearchNext]_vars

(***************************************************************************)
(* SpecFanout: posts are created while personas are added, updated and     *)
(* deleted on other request threads and cleanup() may run; the pool's      *)
(* workers take no step, so that every scheduled task is still in the      *)
(* queue as it was submitted.                                              *)
(***************************************************************************)
FanoutNext ==
  \/ \E t \in Requests, content \in UserTexts : CreatePost(t, content)
  \/ \E t \in Requests : DbAcquire(t)
  \/ \E t \in Requests : CommitPost(t)
  \/ \E t \in Requests : SubmitStep(t)
  \/ \E t \in Requests : SubmitRaise(t)
  \/ \E t \in Requests : SubmitReturn(t)
  \/ \E t \in Requests, p \in NewPersonas : AddPersona(t, p)
  \/ \E t \in Requests, p \in NewPersonas, index \in 0..MaxPersonas :
       UpdatePersona(t, index, p)
  \/ \E t \in Requests, index \in 0..MaxPersonas : DeletePersona(t, index)
  \/ Shutdown

SpecFanout == Init /\ [][FanoutNext]_vars

(***************************************************************************)
(* SpecPolicy: generate_post_content and generate_comment_content on every *)
(* text of AllRaws, the long one included.  A search arrives while the     *)
(* persona list is empty (posts only), a post while it is not.             *)
(***************************************************************************)
PolicyInit ==
  \E n \in { k \in InitCounts : k <= 1 } : InitWith(SubSeq(DefaultPersonas, 1, n))

PolicyNext ==
  \/ \E t \in OneRequest, content \in UserTexts :
       personas # << >> /\ CreatePost(t, content)
  \/ \E t \in OneRequest, query \in Queries :
       personas = << >> /\ SearchGenerate(t, query)
  \/ \E t \in OneRequest \cup Workers : GenAcquire(t)
  \/ \E t \in OneRequest \cup Workers, raw \in AllRaws : GenReturn(t, raw)
  \/ \E t \in OneRequest \cup Workers : GenRaise(t)
  \/ \E t \in OneRequest \cup Workers : DbAcquire(t)
  \/ \E t \in OneRequest : CommitPost(t)
  \/ \E t \in OneRequest : SubmitStep(t)
  \/ \E t \in OneRequest : SubmitReturn(t)
  \/ \E w \in Workers : Dequeue(w)
  \/ \E w \in Workers : CommitComment(w)

SpecPolicy == PolicyInit /\ [][PolicyNext]_vars

(***************************************************************************)
(* SpecAccept: SpecPolicy on the texts at the limits of the acceptance     *)
(* tests.                                                                  *)
(***************************************************************************)
AcceptNext ==
  \/ \E t \in OneRequest, content \in UserTexts :
       personas # << >> /\ CreatePost(t, content)
  \/ \E t \in OneRequest, query \in Queries :
       personas = << >> /\ SearchGenerate(t, query)
  \/ \E t \in OneRequest \cup Workers : GenAcquire(t)
  \/ \E t \in OneRequest \cup Workers, raw \in EdgeRaws : GenReturn(t, raw)
  \/ \E t \in OneRequest \cup Workers : DbAcquire(t)
  \/ \E t \in OneRequest : CommitPost(t)
  \/ \E t \in OneRequest : SubmitStep(t)
  \/ \E t \in OneRequest : SubmitReturn(t)
  \/ \E w \in Workers : Dequeue(w)
  \/ \E w \in Workers : CommitComment(w)

SpecAccept == PolicyInit /\ [][AcceptNext]_vars

(***************************************************************************)
(* SpecClean: SpecPolicy on the texts for the sanitizer.                   *)
(***************************************************************************)
CleanNext ==
  \/ \E t \in OneRequest, content \in UserTexts :
       personas # << >> /\ CreatePost(t, content)
  \/ \E t \in OneRequest, query \in Queries :
       personas = << >> /\ SearchGenerate(t, query)
  \/ \E t \in OneRequest \cup Workers : GenAcquire(t)
  \/ \E t \in OneRequest \cup Workers, raw \in SanitizerRaws : GenReturn(t, raw)
  \/ \E t \in OneRequest \cup Workers : DbAcquire(t)
  \/ \E t \in OneRequest : CommitPost(t)
  \/ \E t \in OneRequest : SubmitStep(t)
  \/ \E t \in OneRequest : SubmitReturn(t)
  \/ \E w \in Workers : Dequeue(w)
  \/ \E w \in Workers : CommitComment(w)

SpecClean == PolicyInit /\ [][CleanNext]_vars

(***************************************************************************)
(* FairSpec: Spec where no pool worker stops for ever while it has a step  *)
(* to take: the pool's threads are scheduled, and every call of            *)
(* model.generate and every sqlite statement ends.                         *)
(***************************************************************************)
WorkerStep(w) ==
  \/ Dequeue(w)
  \/ GenAcquire(w)
  \/ \E raw \in ShortRaws : GenReturn(w, raw)
  \/ GenRaise(w)
  \/ DbAcquire(w)
  \/ CommitComment(w)
  \/ DbRaise(w)
  \/ WorkerExit(w)

FairSpec == Spec /\ \A w \in Workers : WF_vars(WorkerStep(w))

(***************************************************************************)
(* SpecStore: two request threads create posts and add comments with short *)
(* and over-long bodies while the pool writes generated comments, over-long*)
(* ones included; sqlite may raise in any write.                           *)
(***************************************************************************)
StoreInit ==
  \E n \in { k \in InitCounts : k <= 1 } : InitWith(SubSeq(DefaultPersonas, 1, n))

StoreNext ==
  \/ \E t \in Requests, content \in StoreTexts : CreatePost(t, content)
  \/ \E t \in Requests, content \in StoreTexts : AddComment(t, 1, content)
  \/ \E t \in Requests : EmptyRequest(t)
  \/ \E t \in OneRequest, query \in Queries \cup {LongQuery} :
       personas = << >> /\ SearchGenerate(t, query)
  \/ \E t \in Requests \cup Workers : DbAcquire(t)
  \/ \E t \in Requests : CommitPost(t)
  \/ \E t \in Requests : CommitUserComment(t)
  \/ \E t \in Requests : SubmitStep(t)
  \/ \E t \in Requests : SubmitReturn(t)
  \/ \E w \in Workers : Dequeue(w)
  \/ \E t \in Requests \cup Workers : GenAcquire(t)
  \/ \E w \in Workers, raw \in {RawGood, RawLong} : GenReturn(w, raw)
  \/ \E t \in Requests, raw \in {RawEmpty, RawLong} : GenReturn(t, raw)
  \/ \E w \in Workers : CommitComment(w)
  \/ \E t \in Requests \cup Workers : DbRaise(t)

SpecStore == StoreInit /\ [][StoreNext]_vars

(***************************************************************************)
(* Properties                                                              *)
(***************************************************************************)
\* the callers inside the generation call of model r
Inside(r) == { t \in Threads : InGenerate(t, r) }
\* the callers waiting for the lock of model r
Waiting(r) == { t \in Threads : pc[t] = "gen_wait" /\ fr[t].model_id = r }

\* C1: in every reachable state and for each model r, at most one caller --
\* a pool worker running a comment task or a request thread generating a
\* post -- is inside the generation call of r, however many target r.
C1_Exclusive == \A r \in Models : Cardinality(Inside(r)) <= 1

\* a request thread generates a post on a model while a pool worker waits to
\* generate a comment on the same model
C1_Witness ==
  \E r \in Models, t \in Requests, w \in Workers :
    /\ InGenerate(t, r)
    /\ w \in Waiting(r)
    /\ locks[r] = t

\* the tasks one call of submit_post_comments has scheduled, in the order of
\* their submission
TasksOf(c) == SelectSeq(tasks, LAMBDA x : x.call = c)
\* the tasks of call c are one per persona of the list ps, in its order, and
\* the task of the persona at ordinal i is bound to model i mod NumModels
FannedOut(c, ps) ==
  /\ Len(TasksOf(c)) = Len(ps)
  /\ \A k \in 1..Len(TasksOf(c)) :
       /\ TasksOf(c)[k].persona = ps[k]
       /\ TasksOf(c)[k].ordinal = k - 1
       /\ TasksOf(c)[k].device_id = (k - 1) % NumModels
       /\ TasksOf(c)[k].post_id = calls[c].post_id

\* C2: a call of submit_post_comments that returns, the persona list being
\* the same P personas throughout, has scheduled exactly P tasks, and the task
\* of the persona at ordinal i (from 0, in list order) is bound to model
\* i mod R, R the number of models.
C2_FanOut ==
  \A c \in DOMAIN calls :
    (calls[c].status = "returned" /\ ~calls[c].mutated) =>
      FannedOut(c, calls[c].start)

\* a call with four personas and two models has returned: models [0,1,0,1]
C2_Witness ==
  \E c \in DOMAIN calls :
    /\ calls[c].status = "returned"
    /\ ~calls[c].mutated
    /\ Len(calls[c].start) = 4
    /\ NumModels = 2
    /\ [k \in 1..4 |-> TasksOf(c)[k].device_id] = <<0, 1, 0, 1>>

\* C8: the tasks of one call of submit_post_comments are those of the persona
\* list as it was when the call started, in that order: a persona added,
\* updated or deleted by a concurrent request during or after the call changes
\* neither how many tasks the call schedules nor the persona or the model of
\* any of them.
C8_Snapshot ==
  \A c \in DOMAIN calls :
    /\ \A k \in 1..Len(TasksOf(c)) :
         /\ k <= Len(calls[c].start)
         /\ TasksOf(c)[k].persona = calls[c].start[k]
         /\ TasksOf(c)[k].device_id = (k - 1) % NumModels
    /\ calls[c].status = "returned" => FannedOut(c, calls[c].start)

\* the threads that run generate_post_content or generate_comment_content
Generators == Workers \cup Requests
\* generate_*_content has returned on thread t and its text is not stored yet
HasResult(t) ==
  /\ fr[t].op \in {"task", "search"}
  /\ pc[t] \in {"db_wait", "db_write"}
\* generate_*_content has raised on thread t
GenerationRaised(t) ==
  \/ t \in Requests /\ fr[t].err = "generation"
  \/ \E k \in DOMAIN tasks : tasks[k].err = "generation"

Exhausted(t) ==
  /\ HasResult(t)
  /\ Len(fr[t].raws) = MaxAttempts
  /\ \A a \in 1..MaxAttempts : ~Acceptable(Kind(t), Cleaned(fr[t].raws[a]))

\* C4: when the cleaned text of every attempt fails the acceptance test,
\* generate_*_content returns the cleaned text of the last attempt cut to 750
\* characters if it is not empty, else the fixed fallback string; what it
\* returns is never empty.
C4_Exhaustion ==
  \A t \in Generators :
    Exhausted(t) =>
      LET last == Cleaned(fr[t].raws[MaxAttempts])
      IN  /\ last # << >> => fr[t].text = Take(last, 750)
          /\ last = << >> => fr[t].text = Fallback(Kind(t), fr[t].topic)
          /\ fr[t].text # << >>
          /\ fr[t].err = "none"

\* the last attempt of a comment was rejected and longer than 750 characters
C4_Witness ==
  \E w \in Workers :
    /\ Exhausted(w)
    /\ Len(Cleaned(fr[w].raws[MaxAttempts])) > 750
    /\ Len(fr[w].text) = 750

\* the generation or the storage write of the task on worker w raises
TaskRaises(w) == GenRaise(w) \/ DbRaise(w)
\* the tasks of the fan-out of task k, k left out
Siblings(k) == { j \in DOMAIN tasks : j # k /\ tasks[j].call = tasks[k].call }
\* the step leaves every request thread as it is
SubmitterUntouched ==
  \A t \in Requests : pc'[t] = pc[t] /\ resp'[t] = resp[t] /\ fr'[t] = fr[t]

\* C5, each step: a task whose generation or storage write raises ends in
\* Failed; that step changes no other task, no request thread, no stored post
\* and not the queue, and the worker is idle again for the next work item; a
\* task in Completed or Failed never changes again, and stored posts stay.
C5_Step ==
  /\ \A w \in Workers :
       (w \in Workers /\ pc[w] \in {"gen_call", "db_write"} /\ TaskRaises(w)) =>
         /\ tasks'[fr[w].task].state = "Failed"
         /\ \A j \in Siblings(fr[w].task) : tasks'[j] = tasks[j]
         /\ SubmitterUntouched
         /\ posts' = posts /\ queue' = queue /\ comments' = comments
         /\ pc'[w] = "idle"
  /\ \A k \in DOMAIN tasks : tasks[k].state \in Terminal => tasks'[k] = tasks[k]
  /\ \A p \in DOMAIN posts : p \in DOMAIN posts' /\ posts'[p] = posts[p]

\* task k has failed and task j is another task of its fan-out
FailedSibling(k, j) ==
  IF k \in DOMAIN tasks /\ j \in DOMAIN tasks
  THEN tasks[k].state = "Failed" /\ j \in Siblings(k)
  ELSE FALSE
\* task j is Completed or Failed
Ended(j) == IF j \in DOMAIN tasks THEN tasks[j].state \in Terminal ELSE FALSE

\* C5: when the generation or the storage write of a comment task raises,
\* the task ends in Failed and is never run again, nothing reaches the
\* submitter, the post stays stored, and every sibling of the task in the
\* same fan-out still reaches Completed or Failed.
C5_FailureIsolation ==
  /\ [][C5_Step]_vars
  /\ \A j \in 1..MaxPoolPersonas :
       (\E k \in 1..MaxPoolPersonas : FailedSibling(k, j)) ~> Ended(j)

\* a task has failed in generation, a sibling has failed in storage, a third
\* has completed after them, and the request was answered 200
C5_Witness ==
  \E k, j, l \in DOMAIN tasks :
    /\ tasks[k].state = "Failed" /\ tasks[k].err = "generation"
    /\ tasks[j].state = "Failed" /\ tasks[j].err = "storage"
    /\ tasks[l].state = "Completed" /\ l > k /\ l > j
    /\ j \in Siblings(k) /\ l \in Siblings(k)
    /\ \E t \in Requests : resp[t] = 200
    /\ Len(posts) = 1

\* C6: in search_generate a generation failure for one post of the batch of
\* NUM_AI_POSTS does not abort the batch and does not reach the HTTP
\* response; the other post is still generated, stored and fanned out.
C6_BatchSurvives ==
  \A t \in Requests :
    (fr[t].op = "search" /\ fr[t].err = "generation") =>
      /\ resp[t] # 500
      /\ pc[t] = "done" => fr[t].stored = NUM_AI_POSTS - 1

\* C7 as the specification states it: of two tasks bound to the same model,
\* the one submitted earlier enters its generation call before the other.
C7_GenerationOrder ==
  \A a, b \in DOMAIN tasks :
    (a < b /\ tasks[a].device_id = tasks[b].device_id /\ tasks[b].entered) =>
      tasks[a].entered

\* C7, amended: of two tasks bound to the same model, the one submitted
\* earlier is taken from the pool's queue and starts running before the
\* other; which of two running tasks enters the generation call first is not
\* fixed.
C7_StartOrder ==
  \A a, b \in DOMAIN tasks :
    (a < b /\ tasks[a].device_id = tasks[b].device_id) =>
      (tasks[b].state # "Scheduled" => tasks[a].state # "Scheduled")

\* the later task is inside its generation call while the earlier one, taken
\* first, still waits for the lock of the same model
C7_Witness ==
  \E a, b \in DOMAIN tasks :
    /\ a < b /\ tasks[a].device_id = tasks[b].device_id
    /\ tasks[b].entered /\ tasks[b].state = "Running"
    /\ ~tasks[a].entered /\ tasks[a].state = "Running"

\* C9: shutdown(wait=True) does not return before every task that was
\* scheduled or running when it was called is Completed or Failed.
C9_Drained ==
  pc[Main] = "returned" => \A k \in pending : tasks[k].state \in Terminal

\* shutdown has returned; two tasks were unfinished when it was called, the
\* earlier one inside or past its generation call
C9_Witness ==
  /\ pc[Main] = "returned"
  /\ \E k, j \in pending :
       /\ k < j
       /\ tasks[k].entered
       /\ tasks[j].state \in Terminal

\* C10: the lock of a model is released on every way out of a generation
\* call, by return and by exception: a lock is held only by a thread that is
\* inside the call, so no later call on the model waits for a lock nobody
\* will release.
C10_Released ==
  \A r \in Models :
    /\ locks[r] # Free => InGenerate(locks[r], r)
    /\ Inside(r) = {} => LockFree(r)

\* a task failed in its generation call on a model, and another task is
\* inside the generation call of that model afterwards
C10_Witness ==
  \E k, j \in DOMAIN tasks, w \in Workers :
    /\ k # j
    /\ tasks[k].state = "Failed" /\ tasks[k].err = "generation"
    /\ fr[w].task = j /\ tasks[j].device_id = tasks[k].device_id
    /\ InGenerate(w, tasks[k].device_id)
    /\ locks[tasks[k].device_id] = w

\* every stored post and every stored comment is at most 750 characters long
StoredBound ==
  /\ \A p \in DOMAIN posts : Len(posts[p].content) <= 750
  /\ \A c \in DOMAIN comments : Len(comments[c].content) <= 750
\* generate_post_content has returned its fallback text on thread t
ReturnedFallback(t) ==
  /\ HasResult(t)
  /\ Kind(t) = "post"
  /\ Len(fr[t].raws) = MaxAttempts
  /\ Cleaned(fr[t].raws[MaxAttempts]) = << >>

\* C11 as the specification states it: every text generate_post_content or
\* generate_comment_content returns and every content stored by add_post or
\* add_comment, generated or sent by a user, is at most 750 characters long.
C11_LengthBound ==
  /\ \A t \in Generators : HasResult(t) => Len(fr[t].text) <= 750
  /\ StoredBound

\* C11, amended: every stored content is at most 750 characters long, and so
\* is every text generate_*_content returns except the fallback text of
\* generate_post_content, which is 35 characters longer than the topic.
C11_StoredBound ==
  /\ StoredBound
  /\ \A t \in Generators :
       HasResult(t) =>
         IF ReturnedFallback(t)
         THEN Len(fr[t].text) = Len(fr[t].topic) + 35
         ELSE Len(fr[t].text) <= 750

\* a fallback post of 785 characters was returned and is stored at 750, and
\* a user's comment of 751 characters is stored at 750
C11_Witness ==
  /\ \E t \in Requests, p \in DOMAIN posts :
       /\ ReturnedFallback(t) /\ Len(fr[t].text) = 785 /\ fr[t].sidx = 1
       /\ posts[p].is_ai /\ Len(posts[p].content) = 750
  /\ \E c \in DOMAIN comments :
       comments[c].author = "You" /\ Len(comments[c].content) = 750

\* the minLength of the acceptance test of a kind
MinLength(kind) == IF kind = "post" THEN 30 ELSE 15
\* the text contains a marker of the denylist of its kind
HasMarker(kind, cleaned) ==
  IF kind = "post"
  THEN \E m \in {L_no_hashtags, L_include, L_use_at_least, L_write_a_comment,
                  L_post_colon} : Contains(m, cleaned)
  ELSE \E m \in {L_include, L_use, L_write_a_comment} : Contains(m, cleaned)
\* generate_*_content on thread t has returned after its first attempt
FirstAttemptAccepted(t) == HasResult(t) /\ Len(fr[t].raws) = 1
\* the cleaned text of the first attempt of the call on thread t
FirstCleaned(t) == Cleaned(fr[t].raws[1])

\* C12 as the specification states it: a cleaned text is rejected exactly
\* when it is empty, shorter than minLength (30 for posts, 15 for comments)
\* or contains a marker; a marker-free text of minLength is accepted.
C12_AcceptFromMinLength ==
  \A t \in Generators :
    HasResult(t) =>
      (FirstAttemptAccepted(t) <=>
         /\ FirstCleaned(t) # << >>
         /\ Len(FirstCleaned(t)) >= MinLength(Kind(t))
         /\ ~HasMarker(Kind(t), FirstCleaned(t)))

\* C12, amended: a cleaned text is rejected exactly when it is empty, not
\* longer than minLength or contains a marker; a marker-free text is accepted
\* from minLength + 1 characters on.
C12_AcceptAboveMinLength ==
  \A t \in Generators :
    HasResult(t) =>
      (FirstAttemptAccepted(t) <=>
         /\ FirstCleaned(t) # << >>
         /\ Len(FirstCleaned(t)) > MinLength(Kind(t))
         /\ ~HasMarker(Kind(t), FirstCleaned(t)))

\* a post of exactly 30 marker-free characters was rejected, and the second
\* attempt, of 31 characters, was accepted
C12_Witness ==
  \E t \in Requests :
    /\ HasResult(t) /\ Kind(t) = "post"
    /\ Len(fr[t].raws) = 2
    /\ Len(FirstCleaned(t)) = 30 /\ ~HasMarker("post", FirstCleaned(t))
    /\ Len(Cleaned(fr[t].raws[2])) = 31
    /\ fr[t].text = Cleaned(fr[t].raws[2])

\* the texts model.generate has returned to the call on thread t
Decoded(t) == { fr[t].raws[a] : a \in 1..Len(fr[t].raws) }
\* the outputs the example of the specification names and the code gives
HikingOnly == <<"I", " ", "l", "o", "v", "e", " ", "h", "i", "k", "i", "n", "g", " ", "i", "n", " ", "t", "h", "e", " ", "m", "o", "u", "n", "t", "a", "i", "n", "s", " ", "e", "v", "e", "r", "y", " ", "w", "e", "e", "k", "e", "n", "d", ".">>
SureHiking == <<"S", "u", "r", "e", "!", " ", "I", " ", "l", "o", "v", "e", " ", "h", "i", "k", "i", "n", "g", " ", "i", "n", " ", "t", "h", "e", " ", "m", "o", "u", "n", "t", "a", "i", "n", "s", " ", "e", "v", "e", "r", "y", " ", "w", "e", "e", "k", "e", "n", "d", ".">>

\* C13 as the specification states it: clean_content applied to "Sure! No
\* hashtags. I love hiking in the mountains every weekend." returns "I love
\* hiking in the mountains every weekend.".
C13_ExampleAsStated ==
  \A t \in Generators :
    (HasResult(t) /\ fr[t].raws = <<RawExample>>) => fr[t].text = HikingOnly

\* C13, amended: clean_content applied to that text returns "Sure! I love
\* hiking in the mountains every weekend.": the first sentence, "Sure", is
\* not longer than 20 characters, so nothing is cut after it.
C13_Example ==
  \A t \in Generators :
    (HasResult(t) /\ fr[t].raws = <<RawExample>>) => fr[t].text = SureHiking

\* a comment task got the example text from the model and returned it cleaned
C13_Witness ==
  \E w \in Workers :
    /\ HasResult(w) /\ fr[w].raws = <<RawExample>>
    /\ Len(fr[w].text) = 51

\* the cleaned text holds a match of a pattern that clean_content removes
HasArtifact(s) ==
  \E p \in 1..PatParen, j \in 1..Len(s) : MatchLen(p, s, j) > 0
\* clean_content neither took a line of the text nor left an artifact in it
Settled(raw) == ~LineTaken(raw) /\ ~HasArtifact(Cleaned(raw))

\* C14 as the specification states it: for every text x,
\* clean_content(clean_content(x)) = clean_content(x).
C14_Idempotent ==
  \A t \in Generators : \A raw \in Decoded(t) : CleanedTwice(raw) = Cleaned(raw)

\* C14, amended: clean_content(clean_content(x)) = clean_content(x) for every
\* text x whose cleaned text holds no further match of a removed pattern and
\* was not taken from a line of x by lines 176-179.
C14_IdempotentWhenSettled ==
  \A t \in Generators : \A raw \in Decoded(t) :
    Settled(raw) => CleanedTwice(raw) = Cleaned(raw)

\* a call has cleaned a text that clean_content changes and settles
C14_Witness ==
  \E t \in Generators : \E raw \in Decoded(t) :
    /\ Settled(raw)
    /\ Cleaned(raw) # raw
    /\ HasResult(t)

\* the tasks of call c that are in one of the states
TasksIn(c, states) ==
  { k \in DOMAIN tasks : tasks[k].call = c /\ tasks[k].state \in states }

\* C15: a thread inside submit_post_comments holds neither a model lock nor
\* the storage lock, and it can always take its next step (submit the next
\* task, raise, or return) whatever the states of the tasks already
\* submitted: it waits for none of them to start or finish.
C15_NonBlocking ==
  \A t \in Requests :
    pc[t] = "submit" =>
      /\ dbLock # t
      /\ \A r \in Models : locks[r] # t
      /\ ENABLED (SubmitStep(t) \/ SubmitRaise(t) \/ SubmitReturn(t))

\* create_post has answered 200 while none of its comment tasks has ended:
\* one is inside its generation call, another still waits in the queue
C15_Witness ==
  \E t \in Requests :
    /\ fr[t].op = "create_post" /\ resp[t] = 200
    /\ Len(TasksOf(fr[t].call)) >= 2
    /\ TasksIn(fr[t].call, Terminal) = {}
    /\ TasksIn(fr[t].call, {"Scheduled"}) # {}
    /\ \E w \in Workers : pc[w] = "gen_call" /\ tasks[fr[w].task].call = fr[t].call

\* the tasks in state Running, the tasks in state Scheduled
RunningTasks == { k \in DOMAIN tasks : tasks[k].state = "Running" }
ScheduledTasks == { k \in DOMAIN tasks : tasks[k].state = "Scheduled" }

\* C16: at most NumModels * MAX_WORKERS_PER_GPU tasks are Running; the queue
\* holds exactly the Scheduled tasks, in submission order; and tasks leave the
\* queue in submission order: a task that has started has no Scheduled task
\* submitted before it.
C16_BoundedPool ==
  /\ Cardinality(RunningTasks) <= NumModels * MAX_WORKERS_PER_GPU
  /\ { queue[a] : a \in 1..Len(queue) } = ScheduledTasks
  /\ \A a, b \in 1..Len(queue) : a < b => queue[a] < queue[b]
  /\ \A j, k \in DOMAIN tasks :
       (j < k /\ tasks[k].state # "Scheduled") => tasks[j].state # "Scheduled"

\* every worker of the pool runs a task and a further task waits in the queue
C16_Witness ==
  /\ Cardinality(RunningTasks) = NumModels * MAX_WORKERS_PER_GPU
  /\ \A w \in Workers : pc[w] \in {"gen_wait", "gen_call", "db_wait", "db_write"}
  /\ queue # << >>

\* worker w runs task k
Runs(w, k) == fr[w].op = "task" /\ fr[w].task = k
\* one step of the program, seen by the tasks: a new task is Scheduled; a
\* task keeps its state, or goes from Scheduled to Running, or from Running
\* to Completed or Failed; and a worker takes up only a Scheduled task
C17_Step ==
  /\ \A k \in DOMAIN tasks' :
       IF k \in DOMAIN tasks
       THEN \/ tasks'[k].state = tasks[k].state
            \/ tasks[k].state = "Scheduled" /\ tasks'[k].state = "Running"
            \/ tasks[k].state = "Running" /\ tasks'[k].state \in Terminal
       ELSE tasks'[k].state = "Scheduled"
  /\ DOMAIN tasks \subseteq DOMAIN tasks'
  /\ \A w \in Workers, k \in DOMAIN tasks :
       (~Runs(w, k) /\ Runs(w, k)') =>
         (tasks[k].state = "Scheduled" /\ tasks'[k].state = "Running")
\* task k has been submitted
Submitted(k) == k \in DOMAIN tasks

\* C17: every task moves only along Scheduled -> Running -> Completed or
\* Failed, stays in a terminal state once there, and is taken up by a worker
\* only once, from Scheduled; and when the workers are scheduled fairly and
\* every generation call and storage write ends, every submitted task
\* eventually is Completed or Failed.
C17_LifeCycle ==
  /\ [][C17_Step]_vars
  /\ \A k \in 1..MaxPoolPersonas : Submitted(k) ~> Ended(k)

\* the three tasks of a fan-out have ended, one Completed and one Failed
\* among them, and the workers are idle or gone
C17_Witness ==
  /\ Len(tasks) = MaxPoolPersonas
  /\ \A k \in DOMAIN tasks : tasks[k].state \in Terminal
  /\ \E j, k \in DOMAIN tasks : tasks[j].state = "Completed" /\ tasks[k].state = "Failed"
  /\ \A w \in Workers : pc[w] \in {"idle", "exited"}

\* generate_*_content is running on thread t
Generating(t) ==
  fr[t].op \in {"task", "search"} /\ pc[t] \in {"gen_wait", "gen_call"}
\* the model index the call on thread t was given: the device_id of the task,
\* or i % len(models) for the AI post number i
GivenIndex(t) ==
  IF fr[t].op = "task" THEN tasks[fr[t].task].device_id ELSE fr[t].sidx % NumModels
\* attempt number a of the call on thread t was accepted
AttemptAccepted(t, a) == Acceptable(Kind(t), Cleaned(fr[t].raws[a]))

\* C18: one call of generate_comment_content or generate_post_content makes
\* at least 1 and at most 2 generation calls, each under the lock of the
\* model index it was given; it makes the second only after the first
\* attempt was rejected, and it returns from the first accepted attempt with
\* that attempt's cleaned text cut to 750 characters.
C18_BoundedRetry ==
  \A t \in Generators :
    /\ Generating(t) =>
         /\ Len(fr[t].raws) < 2
         /\ \A a \in 1..Len(fr[t].raws) : ~AttemptAccepted(t, a)
         /\ pc[t] = "gen_call" =>
              /\ locks[GivenIndex(t)] = t
              /\ \A r \in Models \ {GivenIndex(t)} : locks[r] # t
    /\ HasResult(t) =>
         /\ Len(fr[t].raws) \in 1..2
         /\ \A a \in 1..(Len(fr[t].raws) - 1) : ~AttemptAccepted(t, a)
         /\ Len(fr[t].raws) = 1 => AttemptAccepted(t, 1)
         /\ AttemptAccepted(t, Len(fr[t].raws)) =>
              fr[t].text = Take(Cleaned(fr[t].raws[Len(fr[t].raws)]), 750)

\* a call whose first attempt was rejected has returned from its second
\* attempt with an accepted text of more than 750 characters, cut to 750
C18_Witness ==
  \E t \in Generators :
    /\ HasResult(t)
    /\ Len(fr[t].raws) = 2
    /\ AttemptAccepted(t, 2)
    /\ Len(Cleaned(fr[t].raws[2])) > 750
    /\ Len(fr[t].text) = 750

\* the stored comments of task k: those on its post under its persona's name
CommentsOf(k) ==
  { c \in DOMAIN comments :
      /\ comments[c].post_id = tasks[k].post_id
      /\ comments[c].author = tasks[k].persona.name }
CompletedTasks == { k \in DOMAIN tasks : tasks[k].state = "Completed" }
\* a Completed task has one stored comment, any other task none, and the
\* generated comments are as many as the Completed tasks
C19_Count ==
  /\ \A k \in DOMAIN tasks :
       Cardinality(CommentsOf(k)) = IF k \in CompletedTasks THEN 1 ELSE 0
  /\ Len(comments) = Cardinality(CompletedTasks)
\* the step that completes a task appends the one row (post_id, content,
\* persona.name) of that task, its content being what
\* generate_comment_content returned; every other step, the one that fails
\* a task included, leaves the comments alone
C19_Step ==
  IF \E k \in DOMAIN tasks : tasks[k].state # "Completed" /\ tasks'[k].state = "Completed"
  THEN \E w \in Workers :
         /\ fr[w].op = "task" /\ tasks'[fr[w].task].state = "Completed"
         /\ comments' = Append(comments,
                          [post_id |-> tasks[fr[w].task].post_id,
                           content |-> fr[w].text,
                           author  |-> tasks[fr[w].task].persona.name])
         /\ \A k \in DOMAIN tasks \ {fr[w].task} : tasks'[k].state = tasks[k].state
  ELSE comments' = comments

\* C19: a task that is Completed has written exactly one comment (post_id,
\* content, persona.name) for its own post and persona, a task in any other
\* state, Failed included, has written none, and the post has as many
\* generated comments as it has Completed tasks, in the order in which the
\* tasks finished.
C19_OneCommentPerTask == []C19_Count /\ [][C19_Step]_vars

\* the three tasks of the fan-out are Completed and the post has its three
\* comments, the first of them not from the first persona
C19_Witness ==
  /\ Len(tasks) = MaxPoolPersonas
  /\ CompletedTasks = DOMAIN tasks
  /\ Len(comments) = MaxPoolPersonas
  /\ comments[1].author # tasks[1].persona.name

\* the threads inside the write transaction of add_post or add_comment
Writers == { t \in Threads : pc[t] = "db_write" }
\* at most one thread is inside a write transaction, and the storage lock is
\* held exactly by that thread
C20_OneWriter ==
  /\ Cardinality(Writers) <= 1
  /\ \A t \in Threads : dbLock = t <=> t \in Writers
  /\ dbLock = Free <=> Writers = {}
\* rows are written only by the holder of the storage lock, in the step in
\* which it gives the lock back, one row at most; the holder gives the lock
\* back in its first step after taking it
C20_Step ==
  /\ dbLock = Free => (posts' = posts /\ comments' = comments)
  /\ dbLock # Free =>
       /\ dbLock' # dbLock => dbLock' = Free
       /\ dbLock' = dbLock => (posts' = posts /\ comments' = comments)
       /\ pc'[dbLock] # pc[dbLock] => dbLock' = Free
       /\ Len(posts') + Len(comments') <= Len(posts) + Len(comments) + 1

\* C20: in every reachable state at most one write transaction (add_post or
\* add_comment, of a pool task or of a request thread) is in progress, and
\* the storage lock is held only by the thread inside that transaction and
\* only for that one write.
C20_SerializedWrites == []C20_OneWriter /\ [][C20_Step]_vars

\* a pool task is inside its write of a comment while a request thread waits
\* for the storage lock with a comment for the same post, one row being
\* stored already
C20_Witness ==
  \E w \in Workers, t \in Requests :
    /\ dbLock = w
    /\ pc[t] = "db_wait" /\ fr[t].op = "add_comment"
    /\ fr[t].post_id = fr[w].post_id
    /\ Len(posts) + Len(comments) >= 1

\* the model locks thread t holds, and all the locks it holds
ModelLocksOf(t) == { r \in Models : locks[r] = t }
LocksHeld(t) == Cardinality(ModelLocksOf(t)) + (IF dbLock = t THEN 1 ELSE 0)
\* thread t waits for a lock that thread u holds
WaitsFor(t, u) ==
  /\ u \in Threads
  /\ \/ pc[t] = "gen_wait" /\ locks[fr[t].model_id] = u
     \/ pc[t] = "db_wait" /\ dbLock = u
\* the threads reached from those of S along at most n waits
RECURSIVE WaitChain(_, _)
WaitChain(S, n) ==
  IF n = 0 THEN S
  ELSE WaitChain(S \cup { u \in Threads : \E s \in S : WaitsFor(s, u) }, n - 1)
\* thread t waits, through a chain of waiting threads, for a lock it holds
\* itself
InWaitCycle(t) ==
  t \in WaitChain({ u \in Threads : WaitsFor(t, u) }, Cardinality(Threads))
\* the holder of a lock can leave its `with` block
CanRelease(u) ==
  \/ ENABLED (GenRaise(u) \/ \E raw \in ShortRaws : GenReturn(u, raw))
  \/ ENABLED (CommitPost(u) \/ CommitComment(u) \/ CommitUserComment(u) \/ DbRaise(u))

\* C21: a thread holds a model lock only while it is inside one generation
\* call on that model; it holds none while it waits for its next attempt,
\* waits for the storage lock or writes, so no thread holds two locks; no
\* thread waits for a lock while it holds one, no chain of waiting threads
\* leads back to its start, and the holder of every lock that is waited for
\* can leave its critical section.
C21_NoNestedLocking ==
  \A t \in Threads :
    /\ \A r \in Models : locks[r] = t => (pc[t] = "gen_call" /\ fr[t].model_id = r)
    /\ dbLock = t => pc[t] = "db_write"
    /\ LocksHeld(t) <= 1
    /\ pc[t] \in {"gen_wait", "db_wait"} => LocksHeld(t) = 0
    /\ ~InWaitCycle(t)
    /\ \A u \in Threads : WaitsFor(t, u) => CanRelease(u)

\* the request thread, between the two attempts of its second post, waits
\* for the lock of model 1, which a pool task holds inside its generation
\* call, while the other pool task holds the storage lock for its write
C21_Witness ==
  \E t \in Requests, w, v \in Workers :
    /\ pc[t] = "gen_wait" /\ fr[t].attempt = 1
    /\ WaitsFor(t, w) /\ pc[w] = "gen_call"
    /\ dbLock = v /\ v # w
    /\ LocksHeld(w) = 1 /\ LocksHeld(v) = 1

=============================================================================
